---- MODULE Spec2Model ----
(***************************************************************************)
(* Model of utils/architectures/RIFE_HD_arch.py: the RIFE (HD) frame       *)
(* interpolation network.  Tensors are modelled by what the architecture   *)
(* determines about them: channel count, spatial size, the inputs they are *)
(* computed from, and whether the operation producing them raised.         *)
(* Values are modelled where the code fixes them (flow accumulation in     *)
(* IFNet.forward, the final blend in RIFE.forward) in fixed point.         *)
(***************************************************************************)
EXTENDS Integers, Sequences, FiniteSets, TLC

VARIABLES
    \* ---- RIFE.forward on tensor shapes ----
    pc,          \* position in RIFE.forward
    inp,         \* the call's arguments: H, W, training, flow_gt, and the warp primitive in use
    imgs,        \* torch.cat((img0, img1), 1)
    ifn,         \* locals of IFNet.forward: x, per-stage inputs and flows, accumulated flows
    ctx,         \* the two ContextNet.forward results (c0, c1) with their per-level trace
    flow,        \* RIFE.forward's flow local
    fus,         \* locals and results of FusionNet.forward
    out,         \* res, mask, merged_img, pred
    ret,         \* the returned value
    \* ---- ResBlock construction and forward ----
    rbPc, rbArgs, rb, rbX, rbOut, built,
    \* ---- IFNet.forward on flow values ----
    fvPc, fvX, fvFlows, fvIn, fvF, fvRet,
    \* ---- RIFE.forward lines 215-225 on pixel values ----
    bvPc, bvIn, bvRes, bvMask, bvMerged, bvPred, bvRet

shapeVars == <<pc, inp, imgs, ifn, ctx, flow, fus, out, ret>>
rbVars    == <<rbPc, rbArgs, rb, rbX, rbOut, built>>
fvVars    == <<fvPc, fvX, fvFlows, fvIn, fvF, fvRet>>
bvVars    == <<bvPc, bvIn, bvRes, bvMask, bvMerged, bvPred, bvRet>>
vars      == <<shapeVars, rbVars, fvVars, bvVars>>

----------------------------------------------------------------------------
(* Bounds *)

MaxDim == 64          \* image heights and widths range up to MaxDim
MaxPlanes == 2        \* ResBlock channel counts range over 1..MaxPlanes
MaxRbDim == 5         \* ResBlock input heights and widths range over 1..MaxRbDim
MaxWidth == 4         \* IFNet value model: frames are rows of MaxWidth pixels
MaxFlow == 1          \* IFNet value model: each block emits a flow in -MaxFlow..MaxFlow
MaxVal == 6           \* blend value model: warped pixel values in -MaxVal..MaxVal (1.0 is One)
MaxLogit == 3         \* blend value model: FusionNet outputs in -MaxLogit..MaxLogit

----------------------------------------------------------------------------
(* Tensors.  st = "ok" for a tensor; any other st is the exception that    *)
(* the producing operation raised ("size": spatial mismatch or empty       *)
(* output, "channels": channel mismatch, "call": calling a missing module);*)
(* st = "None" is Python's None.  runs lists, for consecutive groups of n  *)
(* channels, the inputs of the call those channels are computed from.      *)

T(c, h, w, deps) ==
    [st |-> "ok", c |-> c, h |-> h, w |-> w, runs |-> <<[n |-> c, deps |-> deps]>>]
Raise(kind) == [st |-> kind, c |-> 0, h |-> 0, w |-> 0, runs |-> <<>>]
None == [st |-> "None", c |-> 0, h |-> 0, w |-> 0, runs |-> <<>>]

IsOk(t) == t.st = "ok"
IsErr(t) == t.st \in {"size", "channels", "call"}
SameSize(a, b) == a.h = b.h /\ a.w = b.w
Deps(t) == UNION {t.runs[i].deps : i \in 1..Len(t.runs)}

\* The first exception among the operands, in evaluation order.
RECURSIVE FirstErr(_)
FirstErr(ts) ==
    IF ts = <<>> THEN None
    ELSE IF ~IsOk(Head(ts)) THEN (IF IsErr(Head(ts)) THEN Head(ts) ELSE Raise("call"))
    ELSE FirstErr(Tail(ts))

AllOk(ts) == \A i \in 1..Len(ts) : IsOk(ts[i])

RECURSIVE SumC(_)
SumC(ts) == IF ts = <<>> THEN 0 ELSE Head(ts).c + SumC(Tail(ts))

RECURSIVE SumN(_)
SumN(runs) == IF runs = <<>> THEN 0 ELSE Head(runs).n + SumN(Tail(runs))

RECURSIVE CatRuns(_)
CatRuns(ts) == IF ts = <<>> THEN <<>> ELSE Head(ts).runs \o CatRuns(Tail(ts))

\* torch.cat(ts, 1): concatenation along the channel axis.
Cat(ts) ==
    IF ~AllOk(ts) THEN FirstErr(ts)
    ELSE IF \E i \in 1..Len(ts) : ~SameSize(ts[i], ts[1]) THEN Raise("size")
    ELSE [st |-> "ok", c |-> SumC(ts), h |-> ts[1].h, w |-> ts[1].w, runs |-> CatRuns(ts)]

\* Channels lo..hi-1 of a list of runs.
RECURSIVE SliceRuns(_, _, _)
SliceRuns(runs, lo, hi) ==
    IF runs = <<>> \/ hi <= 0 THEN <<>>
    ELSE LET r    == Head(runs)
             from == IF lo > 0 THEN lo ELSE 0
             to   == IF hi < r.n THEN hi ELSE r.n
             rest == SliceRuns(Tail(runs), lo - r.n, hi - r.n)
         IN  IF to > from THEN <<[n |-> to - from, deps |-> r.deps]>> \o rest ELSE rest

\* x[:, lo:hi]
Slice(x, lo, hi) ==
    IF ~IsOk(x) THEN FirstErr(<<x>>)
    ELSE LET runs == SliceRuns(x.runs, lo, hi)
         IN  [st |-> "ok", c |-> SumN(runs), h |-> x.h, w |-> x.w, runs |-> runs]

\* F.interpolate(x, scale_factor=num/den, mode="bilinear"): output size is
\* floor(size * scale_factor); an empty output raises.
Interpolate(x, num, den) ==
    IF ~IsOk(x) THEN FirstErr(<<x>>)
    ELSE LET h == (x.h * num) \div den
             w == (x.w * num) \div den
         IN  IF h < 1 \/ w < 1 THEN Raise("size") ELSE [x EXCEPT !.h = h, !.w = w]

\* nn.Conv2d(inC, outC, k, s, p) applied to x.
Conv2d(x, inC, outC, k, s, p) ==
    IF ~IsOk(x) THEN FirstErr(<<x>>)
    ELSE IF x.c # inC THEN Raise("channels")
    ELSE IF x.h + 2 * p < k \/ x.w + 2 * p < k THEN Raise("size")
    ELSE T(outC, ((x.h + 2 * p - k) \div s) + 1, ((x.w + 2 * p - k) \div s) + 1, Deps(x))

\* Mutant: a transposed convolution with kernel 3, which yields 2h - 1.
ConvTranspose2d_kernel3(x, inC, outC) ==
    IF ~IsOk(x) THEN FirstErr(<<x>>)
    ELSE IF x.c # inC THEN Raise("channels")
    ELSE T(outC, (x.h - 1) * 2 - 2 * 1 + 3, (x.w - 1) * 2 - 2 * 1 + 3, Deps(x))

\* nn.ConvTranspose2d(inC, outC, kernel_size=4, stride=2, padding=1) applied to x.
ConvTranspose2d(x, inC, outC) ==
    IF ~IsOk(x) THEN FirstErr(<<x>>)
    ELSE IF x.c # inC THEN Raise("channels")
    ELSE T(outC, (x.h - 1) * 2 - 2 * 1 + 4, (x.w - 1) * 2 - 2 * 1 + 4, Deps(x))

\* nn.PReLU(n) and nn.BatchNorm2d(n): per-channel parameters, shape preserving.
PReLU(x, n) ==
    IF ~IsOk(x) THEN FirstErr(<<x>>)
    ELSE IF n # 1 /\ x.c # n THEN Raise("channels") ELSE x

BatchNorm2d(x, n) ==
    IF ~IsOk(x) THEN FirstErr(<<x>>)
    ELSE IF x.c # n THEN Raise("channels") ELSE x

\* nn.PixelShuffle(r): (c*r*r, h, w) -> (c, h*r, w*r).
PixelShuffle(x, r) ==
    IF ~IsOk(x) THEN FirstErr(<<x>>)
    ELSE IF x.c % (r * r) # 0 THEN Raise("channels")
    ELSE T(x.c \div (r * r), x.h * r, x.w * r, Deps(x))

\* Elementwise binary operation with broadcasting (+, *).
BDim(a, b) == IF a = b THEN a ELSE IF a = 1 THEN b ELSE IF b = 1 THEN a ELSE -1

Elementwise(a, b) ==
    IF ~AllOk(<<a, b>>) THEN FirstErr(<<a, b>>)
    ELSE IF BDim(a.c, b.c) = -1 THEN Raise("channels")
    ELSE IF BDim(a.h, b.h) = -1 \/ BDim(a.w, b.w) = -1 THEN Raise("size")
    ELSE T(BDim(a.c, b.c), BDim(a.h, b.h), BDim(a.w, b.w), Deps(a) \cup Deps(b))

\* Elementwise unary operation (sigmoid, negation, clamp, scaling by a constant).
Pointwise(x) == IF ~IsOk(x) THEN FirstErr(<<x>>) ELSE x

\* x.mean(3, True).mean(2, True)
GlobalMean(x) == IF ~IsOk(x) THEN FirstErr(<<x>>) ELSE [x EXCEPT !.h = 1, !.w = 1]

\* warp(image, flow) of utils.architectures.video: resamples image at the
\* positions displaced by the 2-channel flow.  With image and flow of equal
\* spatial size the result has the image's shape.  With unequal sizes the
\* primitive either raises (inp.warp = "strict") or samples on the flow's
\* grid (inp.warp = "resample"), whichever the installed primitive does.
Warp(img, fl) ==
    IF ~AllOk(<<img, fl>>) THEN FirstErr(<<img, fl>>)
    ELSE IF fl.c # 2 THEN Raise("channels")
    ELSE IF SameSize(img, fl) THEN T(img.c, img.h, img.w, Deps(img) \cup Deps(fl))
    ELSE IF inp.warp = "strict" THEN Raise("size")
    ELSE T(img.c, fl.h, fl.w, Deps(img) \cup Deps(fl))

----------------------------------------------------------------------------
(* Modules.  kind "Sequential" is Conv2d [+ BatchNorm2d] [+ PReLU];        *)
(* "NoneType" is the None a builder returns for an unhandled mode; "unset" *)
(* is an attribute __init__ never assigned; "raise" is a builder raising.  *)

Modes == {"rife", "ifnet", "None", "other"}

Module(kind, inC, outC, k, s, p, bias, bn, act) ==
    [kind |-> kind, inC |-> inC, outC |-> outC, k |-> k, s |-> s, p |-> p,
     bias |-> bias, bn |-> bn, act |-> act]

NoModule == Module("NoneType", 0, 0, 0, 0, 0, FALSE, FALSE, FALSE)
Unset == Module("unset", 0, 0, 0, 0, 0, FALSE, FALSE, FALSE)
Identity == Module("Identity", 0, 0, 0, 0, 0, FALSE, FALSE, FALSE)
RaisingBuilder == Module("raise", 0, 0, 0, 0, 0, FALSE, FALSE, FALSE)

conv(in_planes, out_planes, kernel_size, stride, padding, mode) ==
    IF mode = "rife"
    THEN Module("Sequential", in_planes, out_planes, kernel_size, stride, padding, TRUE, FALSE, TRUE)
    ELSE IF mode = "ifnet"
    THEN Module("Sequential", in_planes, out_planes, kernel_size, stride, padding, FALSE, TRUE, TRUE)
    ELSE NoModule

\* Mutant: an unhandled mode raises.
conv_woact_strict(in_planes, out_planes, kernel_size, stride, padding, mode) ==
    IF mode = "rife"
    THEN Module("Sequential", in_planes, out_planes, kernel_size, stride, padding, TRUE, FALSE, FALSE)
    ELSE IF mode = "ifnet"
    THEN Module("Sequential", in_planes, out_planes, kernel_size, stride, padding, FALSE, TRUE, FALSE)
    ELSE RaisingBuilder

\* conv_woact (lines 32-43)
conv_woact(in_planes, out_planes, kernel_size, stride, padding, mode) ==
    IF mode = "rife"
    THEN Module("Sequential", in_planes, out_planes, kernel_size, stride, padding, TRUE, FALSE, FALSE)
    ELSE IF mode = "ifnet"
    THEN Module("Sequential", in_planes, out_planes, kernel_size, stride, padding, FALSE, TRUE, FALSE)
    ELSE NoModule

\* deconv(in_planes, out_planes) applied to x: ConvTranspose2d(4, 2, 1) + PReLU.
deconv(x, in_planes, out_planes) ==
    PReLU(ConvTranspose2d(x, in_planes, out_planes), out_planes)

\* module(x)
Call(m, x) ==
    IF ~IsOk(x) THEN FirstErr(<<x>>)
    ELSE IF m.kind = "Identity" THEN x
    ELSE IF m.kind = "Sequential"
    THEN LET y  == Conv2d(x, m.inC, m.outC, m.k, m.s, m.p)
             yb == IF m.bn THEN BatchNorm2d(y, m.outC) ELSE y
         IN  IF m.act THEN PReLU(yb, m.outC) ELSE yb
    ELSE Raise("call")

\* Mutant: the 5x5 convolution of 'ifnet' mode keeps padding 1.
ResBlock_init_pad1(in_planes, out_planes, stride, mode) ==
    [conv0 |-> IF in_planes = out_planes /\ stride = 1
               THEN Identity
               ELSE Module("Sequential", in_planes, out_planes, 3, stride, 1, FALSE, FALSE, FALSE),
     conv1 |-> IF mode = "rife" THEN conv(in_planes, out_planes, 3, stride, 1, mode)
               ELSE IF mode = "ifnet" THEN conv(in_planes, out_planes, 5, stride, 1, mode)
               ELSE Unset,
     conv2 |-> conv_woact(out_planes, out_planes, 3, 1, 1, mode),
     relu1 |-> 1,
     relu2 |-> out_planes,
     fc1   |-> Module("Sequential", out_planes, 16, 1, 1, 0, FALSE, FALSE, FALSE),
     fc2   |-> Module("Sequential", 16, out_planes, 1, 1, 0, FALSE, FALSE, FALSE)]

\* ResBlock.__init__ (lines 46-61)
ResBlock_init(in_planes, out_planes, stride, mode) ==
    [conv0 |-> IF in_planes = out_planes /\ stride = 1
               THEN Identity
               ELSE Module("Sequential", in_planes, out_planes, 3, stride, 1, FALSE, FALSE, FALSE),
     conv1 |-> IF mode = "rife" THEN conv(in_planes, out_planes, 3, stride, 1, mode)
               ELSE IF mode = "ifnet" THEN conv(in_planes, out_planes, 5, stride, 2, mode)
               ELSE Unset,
     conv2 |-> conv_woact(out_planes, out_planes, 3, 1, 1, mode),
     relu1 |-> 1,
     relu2 |-> out_planes,
     fc1   |-> Module("Sequential", out_planes, 16, 1, 1, 0, FALSE, FALSE, FALSE),
     fc2   |-> Module("Sequential", 16, out_planes, 1, 1, 0, FALSE, FALSE, FALSE)]

ResBlock_forward(blk, x0) ==
    LET y  == Call(blk.conv0, x0)
        x1 == Call(blk.conv1, x0)
        x2 == Call(blk.conv2, x1)
        w0 == GlobalMean(x2)
        w1 == PReLU(Call(blk.fc1, w0), blk.relu1)
        w2 == Pointwise(Call(blk.fc2, w1))
    IN  IF ~IsOk(y) THEN FirstErr(<<y>>)
        ELSE PReLU(Elementwise(Elementwise(x2, w2), y), blk.relu2)

\* ResBlock(in_planes, out_planes, stride, mode)(x)
ResBlock(x, in_planes, out_planes, stride, mode) ==
    ResBlock_forward(ResBlock_init(in_planes, out_planes, stride, mode), x)

----------------------------------------------------------------------------
(* IFBlock, IFNet *)

\* A layer of a sequential pipeline.
Layer(op, a, b, k, s, p, mode) ==
    [op |-> op, a |-> a, b |-> b, k |-> k, s |-> s, p |-> p, mode |-> mode]

\* layer(x)
Apply(l, x) ==
    IF l.op = "interpolate" THEN Interpolate(x, l.a, l.b)
    ELSE IF l.op = "conv" THEN Call(conv(l.a, l.b, l.k, l.s, l.p, l.mode), x)
    ELSE IF l.op = "ResBlock" THEN ResBlock(x, l.a, l.b, l.s, l.mode)
    ELSE IF l.op = "Conv2d" THEN Conv2d(x, l.a, l.b, l.k, l.s, l.p)
    ELSE PixelShuffle(x, l.a)

\* x = layer_1(x); x = layer_2(x); ...
RECURSIVE Run(_, _)
Run(layers, x) == IF layers = <<>> THEN x ELSE Run(Tail(layers), Apply(Head(layers), x))

\* The statements of IFBlock.forward, with the modules of IFBlock.__init__.
IFBlock_layers(in_planes, scale, c) ==
    (IF scale # 1 THEN <<Layer("interpolate", 1, scale, 0, 0, 0, "")>> ELSE <<>>)
    \o <<Layer("conv", in_planes, c, 5, 2, 2, "ifnet"),
         Layer("ResBlock", c, c, 0, 1, 0, "ifnet"),
         Layer("ResBlock", c, c, 0, 1, 0, "ifnet"),
         Layer("ResBlock", c, c, 0, 1, 0, "ifnet"),
         Layer("ResBlock", c, c, 0, 1, 0, "ifnet"),
         Layer("ResBlock", c, c, 0, 1, 0, "ifnet"),
         Layer("ResBlock", c, c, 0, 1, 0, "ifnet"),
         Layer("Conv2d", c, 8, 3, 1, 1, ""),
         Layer("PixelShuffle", 2, 0, 0, 0, 0, "")>>
    \o (IF scale # 1 THEN <<Layer("interpolate", scale, 1, 0, 0, 0, "")>> ELSE <<>>)

\* IFBlock(in_planes, scale, c)(x)
IFBlock(x, in_planes, scale, c) == Run(IFBlock_layers(in_planes, scale, c), x)

\* IFNet.__init__: block0..block3
IFNet_blocks ==
    <<[in_planes |-> 6, scale |-> 8, c |-> 192],
      [in_planes |-> 8, scale |-> 4, c |-> 128],
      [in_planes |-> 8, scale |-> 2, c |-> 96],
      [in_planes |-> 8, scale |-> 1, c |-> 48]>>

\* flow0 + flow1 + ... (left to right)
RECURSIVE SumFlows(_)
SumFlows(fs) ==
    IF Len(fs) = 1 THEN fs[1]
    ELSE Elementwise(SumFlows(SubSeq(fs, 1, Len(fs) - 1)), fs[Len(fs)])

\* Mutant: the accumulated flow is left out of the concatenation.
IFNet_stageInput_noFlow(k, x, Facc) ==
    IF k = 0 THEN x
    ELSE LET warped_img0 == Warp(Slice(x, 0, 3), Facc)
             warped_img1 == Warp(Slice(x, 3, x.c), Pointwise(Facc))
         IN  Cat(<<warped_img0, warped_img1>>)

\* The input of stage k (0-based) of IFNet.forward, given x and the flow
\* accumulated so far.
IFNet_stageInput(k, x, Facc) ==
    IF k = 0 THEN x
    ELSE LET warped_img0 == Warp(Slice(x, 0, 3), Facc)
             warped_img1 == Warp(Slice(x, 3, x.c), Pointwise(Facc))
         IN  Cat(<<warped_img0, warped_img1, Facc>>)

----------------------------------------------------------------------------
(* ContextNet *)

ContextNet_c == 32

\* ContextNet.__init__: conv1..conv4
ContextNet_blocks ==
    <<[in_planes |-> ContextNet_c,     out_planes |-> ContextNet_c],
      [in_planes |-> ContextNet_c,     out_planes |-> 2 * ContextNet_c],
      [in_planes |-> 2 * ContextNet_c, out_planes |-> 4 * ContextNet_c],
      [in_planes |-> 4 * ContextNet_c, out_planes |-> 8 * ContextNet_c]>>

\* Flow magnitudes are counted in units of 1/FlowUnit of the flow passed in,
\* so that the four halvings of ContextNet.forward are exact.
FlowUnit == 2 * 2 * 2 * 2

\* Levels i..4 of ContextNet.forward; a level that raises ends the trace.
RECURSIVE ContextNet_levels(_, _, _, _, _)
ContextNet_levels(i, x, fl, mag, acc) ==
    IF i > Len(ContextNet_blocks) THEN acc
    ELSE LET b   == ContextNet_blocks[i]
             xi  == ResBlock(x, b.in_planes, b.out_planes, 2, "rife")
             fli == IF IsOk(xi) THEN Pointwise(Interpolate(fl, 1, 2)) ELSE FirstErr(<<xi>>)
             fi  == Warp(xi, fli)
             lev == [x |-> xi, flow |-> fli, f |-> fi, mag |-> mag \div 2]
         IN  IF IsOk(fi) THEN ContextNet_levels(i + 1, xi, fli, mag \div 2, Append(acc, lev))
             ELSE Append(acc, lev)

\* Mutant: conv0 built with stride 1.
ContextNet_forward_stride1(x, fl) ==
    ContextNet_levels(1, Call(conv(3, ContextNet_c, 3, 1, 1, "rife"), x), fl, FlowUnit, <<>>)

\* ContextNet.forward(x, flow): the trace of its levels.
ContextNet_forward(x, fl) ==
    ContextNet_levels(1, Call(conv(3, ContextNet_c, 3, 2, 1, "rife"), x), fl, FlowUnit, <<>>)

\* The exception ContextNet.forward raised, or None when it returned.
ContextNet_raised(tr) == FirstErr(<<tr[Len(tr)].f>>)

\* The returned list [f1, f2, f3, f4].
ContextNet_result(tr) == [i \in 1..Len(tr) |-> tr[i].f]

----------------------------------------------------------------------------
(* FusionNet *)

FusionNet_c == 32

\* Mutant: the final pixel-shuffle is left out.
FusionNet_up4_missing(x) == Pointwise(x)

\* FusionNet.up4 applied to x (lines 176, 195)
FusionNet_up4(x) == PixelShuffle(x, 2)

\* Mutant: both ground-truth warps use channels 0..1 of flow_gt.
FusionNet_gtWarps_sameChannels(im0, im1, flow_gt) ==
    IF flow_gt = None THEN <<None, None>>
    ELSE <<Warp(im0, Slice(flow_gt, 0, 2)), Warp(im1, Slice(flow_gt, 0, 2))>>

\* lines 181-185: the ground-truth warps
FusionNet_gtWarps(im0, im1, flow_gt) ==
    IF flow_gt = None THEN <<None, None>>
    ELSE <<Warp(im0, Slice(flow_gt, 0, 2)), Warp(im1, Slice(flow_gt, 2, 4))>>

\* FusionNet.__init__: down0..down3 and up0..up3
FusionNet_down ==
    <<[in_planes |-> FusionNet_c,      out_planes |-> 2 * FusionNet_c],
      [in_planes |-> 4 * FusionNet_c,  out_planes |-> 4 * FusionNet_c],
      [in_planes |-> 8 * FusionNet_c,  out_planes |-> 8 * FusionNet_c],
      [in_planes |-> 16 * FusionNet_c, out_planes |-> 16 * FusionNet_c]>>

FusionNet_up ==
    <<[in_planes |-> 32 * FusionNet_c, out_planes |-> 8 * FusionNet_c],
      [in_planes |-> 16 * FusionNet_c, out_planes |-> 4 * FusionNet_c],
      [in_planes |-> 8 * FusionNet_c,  out_planes |-> 2 * FusionNet_c],
      [in_planes |-> 4 * FusionNet_c,  out_planes |-> FusionNet_c]>>

\* lines 187-190: s0 = down0(x), s_k = down_k(cat(s_k-1, c0[k-1], c1[k-1])).
\* Entry k of the result is the input and the output of down_(k-1).
RECURSIVE FusionNet_encode(_, _, _, _, _)
FusionNet_encode(k, x, c0, c1, acc) ==
    IF k > Len(FusionNet_down) THEN acc
    ELSE LET d   == FusionNet_down[k]
             cat == IF k = 1 THEN x ELSE Cat(<<x, c0[k - 1], c1[k - 1]>>)
             sk  == ResBlock(cat, d.in_planes, d.out_planes, 2, "rife")
         IN  FusionNet_encode(k + 1, sk, c0, c1, Append(acc, [cat |-> cat, s |-> sk]))

\* lines 191-194: x = up0(cat(s3, c0[3], c1[3])), x = up_k(cat(x, s_(3-k))).
\* Entry k of the result is the input and the output of up_(k-1).
RECURSIVE FusionNet_decode(_, _, _, _, _, _)
FusionNet_decode(k, x, enc, c0, c1, acc) ==
    IF k > Len(FusionNet_up) THEN acc
    ELSE LET u   == FusionNet_up[k]
             cat == IF k = 1 THEN Cat(<<x, c0[4], c1[4]>>) ELSE Cat(<<x, enc[5 - k].s>>)
             xk  == deconv(cat, u.in_planes, u.out_planes)
         IN  FusionNet_decode(k + 1, xk, enc, c0, c1, Append(acc, [cat |-> cat, x |-> xk]))

\* FusionNet.forward(img0, img1, flow, c0, c1, flow_gt): its locals.
FusionNet_forward(im0, im1, fl, c0, c1, flow_gt) ==
    LET warped_img0 == Warp(im0, fl)
        warped_img1 == Warp(im1, Pointwise(fl))
        gt   == FusionNet_gtWarps(im0, im1, flow_gt)
        gtErr == IF flow_gt = None THEN None ELSE FirstErr(gt)
        cat0 == IF AllOk(<<warped_img0, warped_img1>>) /\ IsErr(gtErr)
                THEN gtErr
                ELSE Cat(<<warped_img0, warped_img1, fl>>)
        x0   == Call(conv(8, FusionNet_c, 3, 2, 1, "rife"), cat0)
        enc  == FusionNet_encode(1, x0, c0, c1, <<>>)
        dec  == FusionNet_decode(1, enc[4].s, enc, c0, c1, <<>>)
        cv   == Conv2d(dec[4].x, FusionNet_c, 16, 3, 1, 1)
    IN  [warped_img0 |-> warped_img0, warped_img1 |-> warped_img1,
         warped_img0_gt |-> gt[1], warped_img1_gt |-> gt[2],
         cat0 |-> cat0, enc |-> enc, dec |-> dec, conv |-> cv, x |-> FusionNet_up4(cv)]

FusionNet_idle ==
    [warped_img0 |-> None, warped_img1 |-> None,
     warped_img0_gt |-> None, warped_img1_gt |-> None,
     cat0 |-> None, enc |-> <<>>, dec |-> <<>>, conv |-> None, x |-> None]

----------------------------------------------------------------------------
(* RIFE.forward, one action per statement (IFNet.forward inlined at the    *)
(* call of line 208).  An exception ends the call: pc = "raised".          *)

\* Heights range over every size up to MaxDim, widths over the multiples of 8.
Dims == 1..MaxDim
Widths == {w \in 1..MaxDim : w % 8 = 0}
WarpKinds == {"strict", "resample"}

\* A supplied flow_gt: 4 channels of the images' size.
FlowGt(H, W) ==
    [st |-> "ok", c |-> 4, h |-> H, w |-> W,
     runs |-> <<[n |-> 1, deps |-> {"flow_gt.0"}], [n |-> 1, deps |-> {"flow_gt.1"}],
                [n |-> 1, deps |-> {"flow_gt.2"}], [n |-> 1, deps |-> {"flow_gt.3"}]>>]

img0 == T(3, inp.H, inp.W, {"img0"})
img1 == T(3, inp.H, inp.W, {"img1"})

Goto(t, next) == pc' = IF IsOk(t) THEN next ELSE "raised"

Init_shape ==
    /\ pc = "call"
    /\ inp = [H |-> 1, W |-> 1, training |-> TRUE, flow_gt |-> None, warp |-> "strict"]
    /\ imgs = None
    /\ ifn = [x |-> None, ins |-> <<>>, flows |-> <<>>, F |-> <<>>]
    /\ ctx = <<>>
    /\ flow = None
    /\ fus = FusionNet_idle
    /\ out = [res |-> None, mask |-> None, merged_img |-> None, pred |-> None]
    /\ ret = [kind |-> "none", items |-> <<>>]

\* model(img0, img1, training=..., flow_gt=...): the arguments of the call.
RIFE_call ==
    /\ pc = "call"
    /\ \E H \in Dims, W \in Widths, training \in BOOLEAN, gt \in BOOLEAN, wk \in WarpKinds :
          inp' = [H |-> H, W |-> W, training |-> training,
                  flow_gt |-> IF gt THEN FlowGt(H, W) ELSE None,
                  warp |-> wk]
    /\ pc' = "cat"
    /\ UNCHANGED <<imgs, ifn, ctx, flow, fus, out, ret, rbVars, fvVars, bvVars>>

\* line 207
RIFE_cat ==
    /\ pc = "cat"
    /\ imgs' = Cat(<<img0, img1>>)
    /\ Goto(imgs', "ifnet_down")
    /\ UNCHANGED <<inp, ifn, ctx, flow, fus, out, ret, rbVars, fvVars, bvVars>>

\* IFNet.forward lines 116-117
IFNet_down ==
    /\ pc = "ifnet_down"
    /\ ifn' = [ifn EXCEPT !.x = Interpolate(imgs, 1, 2)]
    /\ Goto(ifn'.x, "ifnet_stage")
    /\ UNCHANGED <<inp, imgs, ctx, flow, fus, out, ret, rbVars, fvVars, bvVars>>

\* IFNet.forward lines 118-119, 120-123, 124-127, 128-131: stage k
IFNet_stage ==
    /\ pc = "ifnet_stage"
    /\ LET k    == Len(ifn.flows)
           b    == IFNet_blocks[k + 1]
           xin  == IFNet_stageInput(k, ifn.x, IF k = 0 THEN None ELSE ifn.F[k])
           fl   == IFBlock(xin, b.in_planes, b.scale, b.c)
           fls  == Append(ifn.flows, fl)
           Fk   == SumFlows(fls)
       IN  /\ ifn' = [ifn EXCEPT !.ins = Append(@, xin), !.flows = fls, !.F = Append(@, Fk)]
           /\ Goto(Fk, IF k + 1 = Len(IFNet_blocks) THEN "ifnet_ret" ELSE "ifnet_stage")
    /\ UNCHANGED <<inp, imgs, ctx, flow, fus, out, ret, rbVars, fvVars, bvVars>>

\* IFNet.forward line 132 and RIFE.forward line 208: flow, _ = self.flownet(imgs)
IFNet_return ==
    /\ pc = "ifnet_ret"
    /\ flow' = ifn.F[Len(ifn.F)]
    /\ pc' = "ctx0"
    /\ UNCHANGED <<inp, imgs, ifn, ctx, fus, out, ret, rbVars, fvVars, bvVars>>

\* lines 209-211: c0 = self.contextnet(img0, flow)
RIFE_context0 ==
    /\ pc = "ctx0"
    /\ ctx' = <<ContextNet_forward(Slice(imgs, 0, 3), flow)>>
    /\ pc' = IF IsErr(ContextNet_raised(ctx'[1])) THEN "raised" ELSE "ctx1"
    /\ UNCHANGED <<inp, imgs, ifn, flow, fus, out, ret, rbVars, fvVars, bvVars>>

\* lines 210, 212: c1 = self.contextnet(img1, -flow)
RIFE_context1 ==
    /\ pc = "ctx1"
    /\ ctx' = Append(ctx, ContextNet_forward(Slice(imgs, 3, imgs.c), Pointwise(flow)))
    /\ pc' = IF IsErr(ContextNet_raised(ctx'[2])) THEN "raised" ELSE "upflow"
    /\ UNCHANGED <<inp, imgs, ifn, flow, fus, out, ret, rbVars, fvVars, bvVars>>

\* lines 213-214
RIFE_upflow ==
    /\ pc = "upflow"
    /\ flow' = Pointwise(Interpolate(flow, 2, 1))
    /\ Goto(flow', "fusion")
    /\ UNCHANGED <<inp, imgs, ifn, ctx, fus, out, ret, rbVars, fvVars, bvVars>>

\* lines 215-216
RIFE_fusion ==
    /\ pc = "fusion"
    /\ fus' = FusionNet_forward(Slice(imgs, 0, 3), Slice(imgs, 3, imgs.c), flow,
                                ContextNet_result(ctx[1]), ContextNet_result(ctx[2]),
                                inp.flow_gt)
    /\ Goto(fus'.x, "res")
    /\ UNCHANGED <<inp, imgs, ifn, ctx, flow, out, ret, rbVars, fvVars, bvVars>>

\* line 217
RIFE_res ==
    /\ pc = "res"
    /\ out' = [out EXCEPT !.res = Pointwise(Slice(fus.x, 0, 3))]
    /\ Goto(out'.res, "mask")
    /\ UNCHANGED <<inp, imgs, ifn, ctx, flow, fus, ret, rbVars, fvVars, bvVars>>

\* line 218
RIFE_mask ==
    /\ pc = "mask"
    /\ out' = [out EXCEPT !.mask = Pointwise(Slice(fus.x, 3, 4))]
    /\ Goto(out'.mask, "merge")
    /\ UNCHANGED <<inp, imgs, ifn, ctx, flow, fus, ret, rbVars, fvVars, bvVars>>

\* line 219
RIFE_merge ==
    /\ pc = "merge"
    /\ out' = [out EXCEPT !.merged_img =
                   Elementwise(Elementwise(fus.warped_img0, out.mask),
                               Elementwise(fus.warped_img1, Pointwise(out.mask)))]
    /\ Goto(out'.merged_img, "pred")
    /\ UNCHANGED <<inp, imgs, ifn, ctx, flow, fus, ret, rbVars, fvVars, bvVars>>

\* lines 220-221
RIFE_pred ==
    /\ pc = "pred"
    /\ out' = [out EXCEPT !.pred = Pointwise(Elementwise(out.merged_img, out.res))]
    /\ Goto(out'.pred, "return")
    /\ UNCHANGED <<inp, imgs, ifn, ctx, flow, fus, ret, rbVars, fvVars, bvVars>>

\* lines 222-225
RIFE_return ==
    /\ pc = "return"
    /\ ret' = IF inp.training
              THEN [kind |-> "tuple",
                    items |-> <<out.pred, out.mask, out.merged_img, fus.warped_img0,
                                fus.warped_img1, fus.warped_img0_gt, fus.warped_img1_gt>>]
              ELSE [kind |-> "tensor", items |-> <<out.pred>>]
    /\ pc' = "done"
    /\ UNCHANGED <<inp, imgs, ifn, ctx, flow, fus, out, rbVars, fvVars, bvVars>>

Next_shape ==
    \/ RIFE_call \/ RIFE_cat \/ IFNet_down \/ IFNet_stage \/ IFNet_return
    \/ RIFE_context0 \/ RIFE_context1 \/ RIFE_upflow \/ RIFE_fusion
    \/ RIFE_res \/ RIFE_mask \/ RIFE_merge \/ RIFE_pred \/ RIFE_return

----------------------------------------------------------------------------
(* The builders and ResBlock on their own: a caller builds a module with   *)
(* conv / conv_woact, or constructs a ResBlock and runs it on an input.    *)

Planes == 1..MaxPlanes
RbDims == 1..MaxRbDim

ResBlock_unbuilt ==
    [conv0 |-> Unset, conv1 |-> Unset, conv2 |-> Unset, relu1 |-> 0, relu2 |-> 0,
     fc1 |-> Unset, fc2 |-> Unset]

Init_rb ==
    /\ rbPc = "new"
    /\ rbArgs = [in_planes |-> 0, out_planes |-> 0, stride |-> 0, mode |-> "None"]
    /\ rb = ResBlock_unbuilt
    /\ rbX = None
    /\ rbOut = None
    /\ built = <<>>

\* conv(...) and conv_woact(...) called with a mode tag (lines 10-23, 32-43)
Builders_call ==
    /\ rbPc = "new"
    /\ \E i \in Planes, o \in Planes, k \in {3, 5}, s \in {1, 2}, mode \in Modes :
          /\ rbArgs' = [in_planes |-> i, out_planes |-> o, stride |-> s, mode |-> mode]
          /\ built' = <<conv(i, o, k, s, k \div 2, mode), conv_woact(i, o, k, s, k \div 2, mode)>>
    /\ rbPc' = IF \E j \in 1..2 : built'[j].kind = "raise" THEN "raised" ELSE "built"
    /\ UNCHANGED <<rb, rbX, rbOut, shapeVars, fvVars, bvVars>>

\* ResBlock(in_planes, out_planes, stride, mode) (lines 46-61)
ResBlock_construct ==
    /\ rbPc = "new"
    /\ \E i \in Planes, o \in Planes, s \in {1, 2}, mode \in Modes :
          /\ rbArgs' = [in_planes |-> i, out_planes |-> o, stride |-> s, mode |-> mode]
          /\ rb' = ResBlock_init(i, o, s, mode)
    /\ rbPc' = IF "raise" \in {rb'.conv0.kind, rb'.conv1.kind, rb'.conv2.kind}
               THEN "raised" ELSE "constructed"
    /\ UNCHANGED <<rbX, rbOut, built, shapeVars, fvVars, bvVars>>

\* block(x) (lines 63-71)
ResBlock_run ==
    /\ rbPc = "constructed"
    /\ \E c \in Planes, h \in RbDims, w \in RbDims : rbX' = T(c, h, w, {"x"})
    /\ rbOut' = ResBlock_forward(rb, rbX')
    /\ rbPc' = IF IsOk(rbOut') THEN "done" ELSE "raised_forward"
    /\ UNCHANGED <<rbArgs, rb, built, shapeVars, fvVars, bvVars>>

Next_rb == Builders_call \/ ResBlock_construct \/ ResBlock_run

----------------------------------------------------------------------------
(* IFNet.forward on values.  A frame is a row of pixels; a flow is one     *)
(* horizontal displacement applied to every pixel (a constant field, which *)
(* bilinear resizing leaves constant); each IFBlock, a learned function,   *)
(* emits any flow.                                                         *)

Pixels == {0, 2}
FlowVals == (0 - MaxFlow)..MaxFlow

Min(a, b) == IF a < b THEN a ELSE b
Max(a, b) == IF a > b THEN a ELSE b

\* F.interpolate(row, scale_factor=0.5, mode="bilinear", align_corners=False):
\* output pixel i is the mean of input pixels 2i-1 and 2i.
Halve(row) == [i \in 1..(Len(row) \div 2) |-> (row[2 * i - 1] + row[2 * i]) \div 2]

\* warp(row, d): output pixel i samples the input at i + d, clamped to the border.
WarpRow(row, d) == [i \in 1..Len(row) |-> row[Max(1, Min(Len(row), i + d))]]

RECURSIVE SumInts(_)
SumInts(fs) == IF fs = <<>> THEN 0 ELSE SumInts(SubSeq(fs, 1, Len(fs) - 1)) + fs[Len(fs)]

\* lines 120-122, 124-126, 128-130: the input of a stage after stage 0
IFNet_valueInput(x, Facc) ==
    [warped_img0 |-> WarpRow(x[1], Facc), warped_img1 |-> WarpRow(x[2], 0 - Facc), F |-> Facc]

\* Mutant: the latest stage's flow replaces the accumulated flow.
IFNet_accumulate_last(fs) == fs[Len(fs)]

\* lines 119, 123, 127, 131: the flow accumulated once flows fs are known
IFNet_accumulate(fs) == SumInts(fs)

Init_fv ==
    /\ fvPc = "call"
    /\ fvX = <<>>
    /\ fvFlows = <<>>
    /\ fvIn = <<>>
    /\ fvF = <<>>
    /\ fvRet = <<>>

\* IFNet.forward(x), lines 116-117
IFNetV_down ==
    /\ fvPc = "call"
    /\ \E a \in [1..MaxWidth -> Pixels], b \in [1..MaxWidth -> Pixels] :
          fvX' = <<Halve(a), Halve(b)>>
    /\ fvPc' = "stage"
    /\ UNCHANGED <<fvFlows, fvIn, fvF, fvRet, shapeVars, rbVars, bvVars>>

\* lines 118-119, 120-123, 124-127, 128-131
IFNetV_stage ==
    /\ fvPc = "stage"
    /\ LET k == Len(fvFlows)
       IN  /\ fvIn' = Append(fvIn, IF k = 0 THEN [warped_img0 |-> fvX[1], warped_img1 |-> fvX[2], F |-> 0]
                                    ELSE IFNet_valueInput(fvX, fvF[k]))
           /\ \E f \in FlowVals : fvFlows' = Append(fvFlows, f)
           /\ fvF' = Append(fvF, IFNet_accumulate(fvFlows'))
           /\ fvPc' = IF k + 1 = Len(IFNet_blocks) THEN "return" ELSE "stage"
    /\ UNCHANGED <<fvX, fvRet, shapeVars, rbVars, bvVars>>

\* line 132
IFNetV_return ==
    /\ fvPc = "return"
    /\ fvRet' = <<fvF[4], <<fvF[1], fvF[2], fvF[3], fvF[4]>> >>
    /\ fvPc' = "done"
    /\ UNCHANGED <<fvX, fvFlows, fvIn, fvF, shapeVars, rbVars, bvVars>>

Next_fv == IFNetV_down \/ IFNetV_stage \/ IFNetV_return

----------------------------------------------------------------------------
(* RIFE.forward lines 215-225 on the values of one pixel, in fixed point:  *)
(* 1.0 is One; products of two values are in units of 1/(One*One).        *)
(* FusionNet, a learned function, emits any residual and mask logits; the  *)
(* warped pixels take any value.                                           *)

One == 2 * 2
Vals == (0 - MaxVal)..MaxVal
Logits == (0 - MaxLogit)..MaxLogit

\* torch.sigmoid to the nearest 1/One: 0.12 -> 0, 0.27 -> 1/4, 0.5 -> 2/4,
\* 0.73 -> 3/4, 0.88 -> 1.
Sigmoid(x) == IF x <= -2 THEN 0 ELSE IF x >= 2 THEN One ELSE (One \div 2) + x

\* Mutant: a clamp without its upper bound.
Clamp_noUpper(v, lo, hi) == IF v < lo THEN lo ELSE v

\* torch.clamp(v, lo, hi)
Clamp(v, lo, hi) == IF v < lo THEN lo ELSE IF v > hi THEN hi ELSE v

Init_bv ==
    /\ bvPc = "call"
    /\ bvIn = [warped_img0 |-> 0, warped_img1 |-> 0, res_logit |-> 0, mask_logit |-> 0,
               warped_img0_gt |-> <<>>, warped_img1_gt |-> <<>>, training |-> TRUE]
    /\ bvRes = 0
    /\ bvMask = 0
    /\ bvMerged = 0
    /\ bvPred = 0
    /\ bvRet = [kind |-> "none", items |-> <<>>]

\* lines 206-216: the call's training flag and what self.fusionnet returned
RIFEV_fusion ==
    /\ bvPc = "call"
    /\ \E w0 \in Vals, w1 \in Vals, r \in Logits, m \in Logits, training \in BOOLEAN,
          gt \in {<<>>} \cup {<<<<g>>, <<0 - g>>>> : g \in {0, One}} :
          bvIn' = [warped_img0 |-> w0, warped_img1 |-> w1, res_logit |-> r, mask_logit |-> m,
                   warped_img0_gt |-> IF gt = <<>> THEN <<>> ELSE gt[1],
                   warped_img1_gt |-> IF gt = <<>> THEN <<>> ELSE gt[2],
                   training |-> training]
    /\ bvPc' = "res"
    /\ UNCHANGED <<bvRes, bvMask, bvMerged, bvPred, bvRet, shapeVars, rbVars, fvVars>>

\* line 217
RIFEV_res ==
    /\ bvPc = "res"
    /\ bvRes' = Sigmoid(bvIn.res_logit) * 2 - One
    /\ bvPc' = "mask"
    /\ UNCHANGED <<bvIn, bvMask, bvMerged, bvPred, bvRet, shapeVars, rbVars, fvVars>>

\* line 218
RIFEV_mask ==
    /\ bvPc = "mask"
    /\ bvMask' = Sigmoid(bvIn.mask_logit)
    /\ bvPc' = "merge"
    /\ UNCHANGED <<bvIn, bvRes, bvMerged, bvPred, bvRet, shapeVars, rbVars, fvVars>>

\* line 219
RIFEV_merge ==
    /\ bvPc = "merge"
    /\ bvMerged' = bvIn.warped_img0 * bvMask + bvIn.warped_img1 * (One - bvMask)
    /\ bvPc' = "pred"
    /\ UNCHANGED <<bvIn, bvRes, bvMask, bvPred, bvRet, shapeVars, rbVars, fvVars>>

\* line 220
RIFEV_pred ==
    /\ bvPc = "pred"
    /\ bvPred' = bvMerged + bvRes * One
    /\ bvPc' = "clamp"
    /\ UNCHANGED <<bvIn, bvRes, bvMask, bvMerged, bvRet, shapeVars, rbVars, fvVars>>

\* Mutant: the clamp is applied in inference mode only.
RIFEV_clamp_inferenceOnly ==
    /\ bvPc = "clamp"
    /\ bvPred' = IF bvIn.training THEN bvPred ELSE Clamp(bvPred, 0, 1 * One * One)
    /\ bvPc' = "return"
    /\ UNCHANGED <<bvIn, bvRes, bvMask, bvMerged, bvRet, shapeVars, rbVars, fvVars>>

\* line 221
RIFEV_clamp ==
    /\ bvPc = "clamp"
    /\ bvPred' = Clamp(bvPred, 0, 1 * One * One)
    /\ bvPc' = "return"
    /\ UNCHANGED <<bvIn, bvRes, bvMask, bvMerged, bvRet, shapeVars, rbVars, fvVars>>

\* lines 222-225
RIFEV_return ==
    /\ bvPc = "return"
    /\ bvRet' = IF bvIn.training
                THEN [kind |-> "tuple",
                      items |-> <<<<bvPred>>, <<bvMask>>, <<bvMerged>>, <<bvIn.warped_img0>>,
                                  <<bvIn.warped_img1>>, bvIn.warped_img0_gt, bvIn.warped_img1_gt>>]
                ELSE [kind |-> "tensor", items |-> <<<<bvPred>>>>]
    /\ bvPc' = "done"
    /\ UNCHANGED <<bvIn, bvRes, bvMask, bvMerged, bvPred, shapeVars, rbVars, fvVars>>

Next_bv ==
    \/ RIFEV_fusion \/ RIFEV_res \/ RIFEV_mask \/ RIFEV_merge
    \/ RIFEV_pred \/ RIFEV_clamp \/ RIFEV_return

----------------------------------------------------------------------------
(* Specifications *)

Init == Init_shape /\ Init_rb /\ Init_fv /\ Init_bv

Next == Next_shape
Spec == Init /\ [][Next]_vars

NextRB == Next_rb
SpecRB == Init /\ [][NextRB]_vars

NextFV == Next_fv
SpecFV == Init /\ [][NextFV]_vars

NextBV == Next_bv
SpecBV == Init /\ [][NextBV]_vars

----------------------------------------------------------------------------
(* Properties *)

Mult32(n) == n % 32 = 0
Returned == pc = "done"
Ended == pc \in {"done", "raised"}
FusionReturned == pc \in {"res", "mask", "merge", "pred", "return", "done"}
Pred == ret.items[1]

\* C1 as stated: for every H and W, inference-mode RIFE.forward completes
\* and returns a tensor of spatial shape (H, W).
C1_AnySizeKeepsShape ==
    (Ended /\ ~inp.training) =>
        (Returned /\ ret.kind = "tensor" /\ Pred.h = inp.H /\ Pred.w = inp.W)

\* C1 amended: inference-mode RIFE.forward completes and returns a 3-channel
\* tensor of spatial shape (H, W) exactly when H and W are multiples of 32,
\* and then every warp met an image and a flow of equal spatial size; for any
\* other size it raises or returns a tensor of another size.
C1_Multiple32KeepsShape ==
    (Ended /\ ~inp.training) =>
        /\ (Mult32(inp.H) /\ Mult32(inp.W)) <=>
              (Returned /\ ret.kind = "tensor" /\ Pred.h = inp.H /\ Pred.w = inp.W)
        /\ (Mult32(inp.H) /\ Mult32(inp.W)) =>
              /\ Pred.c = 3
              /\ \A k \in 1..4 : SameSize(ifn.F[k], ifn.x) /\ SameSize(ifn.ins[k], ifn.x)
              /\ \A j \in 1..2 : \A i \in 1..4 : SameSize(ctx[j][i].x, ctx[j][i].flow)
              /\ SameSize(flow, img0)
              /\ SameSize(fus.x, img0)

C1_Witness ==
    /\ Returned /\ ~inp.training /\ inp.H = 32 /\ inp.W = 64
    /\ Pred.h = 32 /\ Pred.w = 64

\* C2: the residual lies in [-1, 1], the mask in [0, 1], the blended image is
\* warped0*mask + warped1*(1-mask), and the prediction is blend + residual
\* clamped, hence in [0, 1], whatever the warped values and FusionNet outputs.
C2_BlendAndClamp ==
    /\ bvPc \in {"mask", "merge", "pred", "clamp", "return", "done"} =>
          (bvRes >= 0 - One /\ bvRes <= One)
    /\ bvPc \in {"merge", "pred", "clamp", "return", "done"} =>
          (bvMask >= 0 /\ bvMask <= One)
    /\ bvPc \in {"pred", "clamp", "return", "done"} =>
          bvMerged = bvIn.warped_img0 * bvMask + bvIn.warped_img1 * (One - bvMask)
    /\ bvPc \in {"return", "done"} =>
          /\ bvPred >= 0 /\ bvPred <= One * One
          /\ (bvMerged + bvRes * One < 0 => bvPred = 0)
          /\ (bvMerged + bvRes * One > One * One => bvPred = One * One)
          /\ (bvMerged + bvRes * One \in 0..(One * One) => bvPred = bvMerged + bvRes * One)

C2_Witness ==
    /\ bvPc = "done"
    /\ bvIn.warped_img0 > One /\ bvIn.warped_img1 < 0
    /\ bvMask = One /\ bvRes = One
    /\ bvMerged + bvRes * One > One * One
    /\ bvPred = One * One

\* C3: IFNet.forward returns four accumulated flows, the k-th being the sum
\* of the flows of stages 0..k; F4 is flow0+flow1+flow2+flow3 and the last
\* entry; each stage after stage 0 sees the two frames warped by plus and
\* minus the flow accumulated through the previous stage, and that flow.
C3_Prefix(k) ==
    IF k = 1 THEN fvFlows[1]
    ELSE IF k = 2 THEN fvFlows[1] + fvFlows[2]
    ELSE IF k = 3 THEN fvFlows[1] + fvFlows[2] + fvFlows[3]
    ELSE fvFlows[1] + fvFlows[2] + fvFlows[3] + fvFlows[4]

C3_FlowAccumulation ==
    /\ Len(fvF) = Len(fvFlows) /\ Len(fvIn) = Len(fvFlows)
    /\ \A k \in 1..Len(fvF) : fvF[k] = C3_Prefix(k)
    /\ \A k \in 2..Len(fvIn) :
          /\ fvIn[k].F = C3_Prefix(k - 1)
          /\ \A i \in 1..Len(fvX[1]) :
                /\ fvIn[k].warped_img0[i] =
                      fvX[1][Max(1, Min(Len(fvX[1]), i + C3_Prefix(k - 1)))]
                /\ fvIn[k].warped_img1[i] =
                      fvX[2][Max(1, Min(Len(fvX[2]), i - C3_Prefix(k - 1)))]
    /\ fvPc = "done" =>
          /\ Len(fvRet[2]) = 4
          /\ \A k \in 1..4 : fvRet[2][k] = C3_Prefix(k)
          /\ fvRet[1] = C3_Prefix(4)
          /\ fvRet[1] = fvRet[2][4]

C3_Witness ==
    /\ fvPc = "done"
    /\ fvFlows = <<1, -1, 1, -1>>
    /\ fvRet = <<0, <<1, 0, 1, 0>> >>
    /\ fvX[1][1] # fvX[1][2] /\ fvX[2][1] # fvX[2][2]
    /\ fvIn[2].warped_img0 # fvX[1] /\ fvIn[2].warped_img1 # fvX[2]

\* C4: with training true RIFE.forward returns the 7-tuple (prediction, mask,
\* blended image, warped0, warped1, gt-warped0, gt-warped1), with training
\* false only the prediction; the prediction is the same function of the
\* warped images and FusionNet outputs in both modes.
C4_Expected(w0, w1, r, m) ==
    LET v == w0 * Sigmoid(m) + w1 * (One - Sigmoid(m)) + (2 * Sigmoid(r) - One) * One
    IN  IF v < 0 THEN 0 ELSE IF v > One * One THEN One * One ELSE v

C4_OutputModes ==
    bvPc = "done" =>
        LET p == C4_Expected(bvIn.warped_img0, bvIn.warped_img1, bvIn.res_logit, bvIn.mask_logit)
        IN  /\ bvIn.training =>
                  /\ bvRet.kind = "tuple"
                  /\ bvRet.items = <<<<p>>, <<bvMask>>, <<bvMerged>>, <<bvIn.warped_img0>>,
                                     <<bvIn.warped_img1>>, bvIn.warped_img0_gt,
                                     bvIn.warped_img1_gt>>
            /\ ~bvIn.training =>
                  /\ bvRet.kind = "tensor"
                  /\ bvRet.items = <<<<p>>>>

C4_Witness ==
    /\ bvPc = "done" /\ bvIn.training
    /\ Len(bvRet.items) = 7
    /\ bvIn.warped_img0_gt # <<>>
    /\ bvMerged + bvRes * One > One * One
    /\ bvRet.items[1] = <<One * One>>
    /\ bvRet.items[3] # bvRet.items[1]

\* C5: FusionNet.forward returns both ground-truth warps None when flow_gt is
\* None, and otherwise img0 warped by channels 0..1 of flow_gt and img1
\* warped by channels 2..3, both tensors; never one of each; its other three
\* outputs are computed without flow_gt.
C5_GtWarpsBothOrNeither ==
    FusionReturned =>
        /\ (inp.flow_gt = None) =>
              (fus.warped_img0_gt = None /\ fus.warped_img1_gt = None)
        /\ (inp.flow_gt # None) =>
              /\ IsOk(fus.warped_img0_gt) /\ IsOk(fus.warped_img1_gt)
              /\ fus.warped_img0_gt.c = 3 /\ fus.warped_img1_gt.c = 3
              /\ Deps(fus.warped_img0_gt) = {"img0", "flow_gt.0", "flow_gt.1"}
              /\ Deps(fus.warped_img1_gt) = {"img1", "flow_gt.2", "flow_gt.3"}
        /\ (fus.warped_img0_gt = None) <=> (fus.warped_img1_gt = None)
        /\ \A t \in {fus.x, fus.warped_img0, fus.warped_img1} :
              IsOk(t) /\ Deps(t) \subseteq {"img0", "img1"}

C5_Witness ==
    /\ Returned /\ inp.flow_gt # None
    /\ IsOk(fus.warped_img0_gt) /\ IsOk(fus.warped_img1_gt)
    /\ Deps(fus.warped_img1_gt) = {"img1", "flow_gt.2", "flow_gt.3"}
    /\ SameSize(fus.warped_img0_gt, img0)

\* C6 as stated: FusionNet.forward's output has 16 channels and the spatial
\* size of img0.
C6_SixteenChannelsFullRes ==
    FusionReturned => (fus.x.c = 16 /\ SameSize(fus.x, img0))

\* C6 amended: the final convolution yields 16 channels at half the output
\* resolution and the pixel-shuffle (factor 2) turns them into a 4-channel
\* tensor of twice that size, which is the spatial size of img0 exactly when
\* H and W are multiples of 32.
C6_FourChannelsFullRes ==
    FusionReturned =>
        /\ fus.conv.c = 16
        /\ fus.x.c = 4
        /\ fus.x.h = 2 * fus.conv.h /\ fus.x.w = 2 * fus.conv.w
        /\ SameSize(fus.x, img0) <=> (Mult32(inp.H) /\ Mult32(inp.W))

C6_Witness ==
    /\ pc = "res" /\ inp.H = 64 /\ inp.W = 32
    /\ fus.conv.c = 16 /\ fus.conv.h = 32 /\ fus.conv.w = 16
    /\ fus.x.c = 4 /\ fus.x.h = 64 /\ fus.x.w = 32

\* The levels ContextNet.forward computed in call j (1: img0, 2: img1).
CtxCalled(j) == Len(ctx) >= j

C7_Levels(j) ==
    /\ Len(ctx[j]) = 4
    /\ ~IsErr(ContextNet_raised(ctx[j]))
    /\ 4 * ctx[j][1].f.h = inp.H /\ 4 * ctx[j][1].f.w = inp.W
    /\ \A i \in 2..4 : /\ 2 * ctx[j][i].f.h = ctx[j][i - 1].f.h
                      /\ 2 * ctx[j][i].f.w = ctx[j][i - 1].f.w
    /\ \A i \in 1..4 : SameSize(ctx[j][i].x, ctx[j][i].flow)
    /\ 2 * ctx[j][1].flow.h = ifn.F[4].h /\ 2 * ctx[j][1].flow.w = ifn.F[4].w
    /\ \A i \in 2..4 : /\ 2 * ctx[j][i].flow.h = ctx[j][i - 1].flow.h
                      /\ 2 * ctx[j][i].flow.w = ctx[j][i - 1].flow.w
    /\ ctx[j][1].mag * 2 = FlowUnit
    /\ \A i \in 2..4 : ctx[j][i].mag * 2 = ctx[j][i - 1].mag

\* C7 as stated: every ContextNet.forward call returns exactly 4 levels, each
\* half the previous one (level 1 a quarter of the image), warped by a flow
\* of the features' size obtained by halving the previous level's flow in
\* size and magnitude.
C7_PyramidAnySize ==
    \A j \in 1..2 : CtxCalled(j) => C7_Levels(j)

\* C7 amended: the same, for images whose H and W are multiples of 32 (with
\* the half-size flow RIFE.forward passes).
C7_PyramidMultiple32 ==
    \A j \in 1..2 :
        (CtxCalled(j) /\ Mult32(inp.H) /\ Mult32(inp.W)) => C7_Levels(j)

C7_Witness ==
    /\ pc = "upflow" /\ inp.H = 64 /\ inp.W = 32
    /\ Len(ctx[2]) = 4
    /\ ctx[2][1].f.h = 16 /\ ctx[2][4].f.h = 2 /\ ctx[2][4].f.w = 1
    /\ ctx[2][4].flow.h = 2 /\ ctx[2][4].mag = 1

RbRan == rbPc \in {"done", "raised_forward"}
Recognized(mode) == mode \in {"rife", "ifnet"}

\* C8: a ResBlock with in_planes = out_planes and stride 1, in mode 'rife' or
\* 'ifnet', has the identity as its shortcut and maps every input of
\* in_planes channels to an output of the same channel count and spatial size.
C8_ResBlockKeepsShape ==
    /\ (rbPc \in {"constructed", "done", "raised_forward"}
           /\ rbArgs.in_planes = rbArgs.out_planes /\ rbArgs.stride = 1) =>
          rb.conv0.kind = "Identity"
    /\ (RbRan /\ rbArgs.in_planes = rbArgs.out_planes /\ rbArgs.stride = 1
           /\ Recognized(rbArgs.mode) /\ rbX.c = rbArgs.in_planes) =>
          /\ rbPc = "done"
          /\ rbOut.c = rbX.c /\ rbOut.h = rbX.h /\ rbOut.w = rbX.w

C8_Witness ==
    /\ rbPc = "done" /\ rbArgs = [in_planes |-> 2, out_planes |-> 2, stride |-> 1, mode |-> "ifnet"]
    /\ rb.conv1.k = 5 /\ rb.conv1.p = 2
    /\ rbX.c = 2 /\ rbX.h = 1 /\ rbX.w = 5
    /\ rbOut.c = 2 /\ rbOut.h = 1 /\ rbOut.w = 5

\* C9: with a mode other than 'rife' or 'ifnet', conv and conv_woact return
\* None without raising, constructing a ResBlock succeeds, and the failure
\* appears when the block's forward is run.
C9_UnknownModeIsSilent ==
    (rbPc # "new" /\ ~Recognized(rbArgs.mode)) =>
        /\ rbPc # "raised"
        /\ rbPc = "built" => (built[1] = NoModule /\ built[2] = NoModule)
        /\ rbPc \in {"constructed", "done", "raised_forward"} => rb.conv2 = NoModule
        /\ RbRan => (rbPc = "raised_forward" /\ IsErr(rbOut))

C9_Witness ==
    /\ rbPc = "raised_forward" /\ rbArgs.mode = "other"
    /\ rb.conv2 = NoModule
    /\ rbX.c = rbArgs.in_planes
    /\ rbOut.st = "call"

\* Every tensor the forward pass has produced so far.
AllTensors ==
    {imgs, ifn.x, flow, out.res, out.mask, out.merged_img, out.pred}
    \cup {ifn.ins[k] : k \in 1..Len(ifn.ins)}
    \cup {ifn.flows[k] : k \in 1..Len(ifn.flows)}
    \cup {ifn.F[k] : k \in 1..Len(ifn.F)}
    \cup UNION {UNION {{ctx[j][i].x, ctx[j][i].flow, ctx[j][i].f} : i \in 1..Len(ctx[j])} :
                    j \in 1..Len(ctx)}
    \cup {fus.warped_img0, fus.warped_img1, fus.warped_img0_gt, fus.warped_img1_gt,
          fus.cat0, fus.conv, fus.x}
    \cup UNION {{fus.enc[k].cat, fus.enc[k].s} : k \in 1..Len(fus.enc)}
    \cup UNION {{fus.dec[k].cat, fus.dec[k].x} : k \in 1..Len(fus.dec)}

HasC(t, n) == IsOk(t) => t.c = n

\* C10: no layer of the forward pass is fed a tensor with another channel
\* count than it was constructed with: the IFNet stage inputs have 6 and then
\* 8 channels, each block emitting a 2-channel flow; FusionNet's conv0 input
\* has 8; the encoder concatenations have 4c, 8c, 16c, 32c channels and the
\* decoder concatenations 16c, 8c, 4c (c = 32).
C10_ChannelsConsistent ==
    /\ \A t \in AllTensors : t.st # "channels"
    /\ \A k \in 1..Len(ifn.ins) : HasC(ifn.ins[k], IF k = 1 THEN 6 ELSE 8)
    /\ \A k \in 1..Len(ifn.flows) : HasC(ifn.flows[k], 2) /\ HasC(ifn.F[k], 2)
    /\ HasC(fus.cat0, 8)
    /\ FusionReturned =>
          /\ HasC(fus.enc[2].cat, 4 * 32) /\ HasC(fus.enc[3].cat, 8 * 32)
          /\ HasC(fus.enc[4].cat, 16 * 32) /\ HasC(fus.dec[1].cat, 32 * 32)
          /\ HasC(fus.dec[2].cat, 16 * 32) /\ HasC(fus.dec[3].cat, 8 * 32)
          /\ HasC(fus.dec[4].cat, 4 * 32)

C10_Witness ==
    /\ Returned /\ inp.H = 32 /\ inp.W = 32
    /\ ifn.ins[1].c = 6 /\ ifn.ins[4].c = 8
    /\ fus.cat0.c = 8 /\ fus.dec[1].cat.c = 1024 /\ fus.dec[4].cat.c = 128

====
